---------------------------- MODULE Spec2Model ----------------------------
(***************************************************************************)
(* A model of asyncpg/cluster.py: the handle of a PostgreSQL test cluster  *)
(* (Cluster, HotStandbyCluster, RunningCluster), the data directory and    *)
(* the server process it drives through pg_ctl, and the two helpers        *)
(* find_available_port and _connection_addr_from_pidfile.                  *)
(*                                                                         *)
(* Text is modelled as a sequence of words: a path is the sequence of its  *)
(* components, an absolute path starting with the component "/"; the empty *)
(* string is << >>.  A method is an operator from a machine record (the    *)
(* handle, the data directory, the environment, the programs run so far,   *)
(* the exception raised) to the machine record after it, so that methods   *)
(* compose the way they call one another; Let(e, LAMBDA x : ...) names the *)
(* machine a call returns.                                                 *)
(***************************************************************************)
EXTENDS Integers, Sequences, FiniteSets, TLC

VARIABLES
    cluster,    \* the fields of the handle object
    fs,         \* the data directory: its entries and the files read or written
    env,        \* platform, installation, server process, pg_ctl's behaviour
    net,        \* the TCP ports of 127.0.0.1 that cannot be bound
    last        \* the last call: operation, arguments, result, exception, calls

vars == <<cluster, fs, env, net, last>>

---------------------------------------------------------------------------
(* Bounds of the model. *)

MaxPid == 2          \* process ids are 1..MaxPid
MaxPort == 2         \* port numbers probed by the port search are 1..MaxPort
MaxTries == 2        \* the port search is called with max_tries in 0..MaxTries
MaxWait == 2         \* start is called with wait in 0..MaxWait
MaxHbaLen == 3       \* add_hba_entry is called while pg_hba.conf has fewer lines
MaxTimeout == 3      \* _test_connection is called with timeout 0..MaxTimeout

PIDs == 1..MaxPid
Ports == 1..MaxPort

None == "None"       \* Python's None, for the fields that hold text
Unset == "unset"     \* an attribute that was never assigned (AttributeError)
NoPid == -1          \* None, for the fields that hold a process id
NoAddr == [none |-> TRUE]   \* None, for the fields that hold a mapping
NoOptions == [no_options |-> TRUE]   \* None, for auth_options
NoExc == "no exception"

\* The value of body for x = value: a let that computes value once.
Only(S) == CHOOSE x \in S : TRUE
Let(value, body(_)) == Only({body(x) : x \in {value}})

---------------------------------------------------------------------------
(* find_available_port *)

\* sock.bind(('127.0.0.1', port)): the errno raised, or "ok".
Bind(port) ==
    IF port \in net.in_use THEN "EADDRINUSE"
    ELSE IF port \in net.denied THEN "EACCES"
    ELSE "ok"

\* The while loop of find_available_port from iteration try_no on; draws[i]
\* is what random.randint(low, high) returns in iteration i.  binds counts
\* the sockets bound (or tried), closes the sockets closed.
\* The loop leaving at the first bind whatever its error (no continue).
PortLoop_no_continue(try_no, port, max_tries, draws, opened) ==
    IF try_no < max_tries
    THEN [port |-> draws[try_no + 1], tries |-> try_no + 1, opened |-> opened + 1,
          closed |-> opened + 1, bound |-> Bind(draws[try_no + 1]) = "ok"]
    ELSE [port |-> NoPid, tries |-> try_no, opened |-> opened,
          closed |-> opened, bound |-> FALSE]

RECURSIVE PortLoop(_, _, _, _, _)
PortLoop(try_no, port, max_tries, draws, opened) ==
    IF try_no < max_tries
    THEN LET n == try_no + 1
             p == draws[n]
             e == Bind(p)
         IN  IF e = "EADDRINUSE"
             THEN PortLoop(n, p, max_tries, draws, opened + 1)       \* continue
             ELSE [port |-> p, tries |-> n, opened |-> opened + 1,
                   closed |-> opened + 1, bound |-> e = "ok"]        \* break
    ELSE [port |-> NoPid, tries |-> try_no, opened |-> opened,
          closed |-> opened, bound |-> FALSE]                        \* while-else

find_available_port(low, high, max_tries, draws) ==
    PortLoop(0, low, max_tries, draws, 0)

---------------------------------------------------------------------------
(* Text, paths and the postmaster.pid status file *)

Slash == "/"
Dot == "."
DotDot == ".."

\* os.path.join(a, b) for two paths (posixpath): an absolute b replaces a.
PathJoin(a, b) ==
    IF b # << >> /\ Head(b) = Slash THEN b ELSE a \o b

\* The loop of os.path.normpath over the components still to be read.
RECURSIVE NormComps(_, _, _)
NormComps(comps, new_comps, initial_slash) ==
    IF comps = << >> THEN new_comps
    ELSE LET comp == Head(comps)
             rest == Tail(comps)
         IN  IF comp = Dot THEN NormComps(rest, new_comps, initial_slash)
             ELSE IF \/ comp # DotDot
                     \/ (~initial_slash /\ new_comps = << >>)
                     \/ (new_comps # << >> /\ new_comps[Len(new_comps)] = DotDot)
                  THEN NormComps(rest, Append(new_comps, comp), initial_slash)
                  ELSE IF new_comps # << >>
                       THEN NormComps(rest, SubSeq(new_comps, 1, Len(new_comps) - 1),
                                      initial_slash)
                       ELSE NormComps(rest, new_comps, initial_slash)

\* os.path.normpath(path): "." and inner ".." collapsed, "" becomes ".".
NormPath(path) ==
    LET initial_slash == path # << >> /\ Head(path) = Slash
        comps == IF initial_slash THEN Tail(path) ELSE path
        out == (IF initial_slash THEN <<Slash>> ELSE << >>)
                   \o NormComps(comps, << >>, initial_slash)
    IN  IF out = << >> THEN <<Dot>> ELSE out

\* The decimal text of a process id, as the postmaster writes it on line 1.
Numeral(n) == <<ToString(n)>>

\* int(line): the number a line of text denotes; IsInt(line) is whether int()
\* accepts it (it raises ValueError otherwise).
IsInt(line) == \E n \in 0..(MaxPid + 1) : Numeral(n) = line
IntOf(line) == CHOOSE n \in 0..(MaxPid + 1) : Numeral(n) = line

PidFileName == "postmaster.pid"

\* Python's truth test of a recorded process id: None and 0 are false.
Truthy(pid) == pid # NoPid /\ pid # 0

\* The wildcards without the IPv6 one.
NormHost_no_ipv6(host_str) ==
    IF host_str = <<"*">> THEN <<"localhost">>
    ELSE IF host_str = <<"0.0.0.0">> THEN <<"127.0.0.1">>
    ELSE host_str

\* The wildcard listen addresses and what a client connects to instead.
NormHost(host_str) ==
    IF host_str = <<"*">> THEN <<"localhost">>
    ELSE IF host_str = <<"0.0.0.0">> THEN <<"127.0.0.1">>
    ELSE IF host_str = <<"::">> THEN <<"::1">>
    ELSE host_str

\* The host of a complete status file: the socket directory when there is one.
HostOf(data_dir, sockdir, hostaddr) ==
    IF sockdir # << >>
    THEN IF Head(sockdir) # Slash
         THEN NormHost(NormPath(PathJoin(data_dir, sockdir)))
         ELSE NormHost(sockdir)
    ELSE NormHost(hostaddr)

\* _connection_addr_from_pidfile without the test of the recorded process id.
connection_addr_from_pidfile_any_pid(c, f) ==
    IF ~f.exists \/ PidFileName \notin f.files
    THEN [addr |-> NoAddr, exc |-> NoExc]
    ELSE IF Len(f.pidfile) < 6 THEN [addr |-> NoAddr, exc |-> NoExc]
    ELSE IF ~IsInt(f.pidfile[1]) THEN [addr |-> NoAddr, exc |-> "ValueError"]
    ELSE [addr |-> [host |-> HostOf(c.data_dir, f.pidfile[5], f.pidfile[6]),
                    port |-> f.pidfile[4]],
          exc |-> NoExc]

\* Cluster._connection_addr_from_pidfile on handle c and data directory f:
\* [addr, exc], addr = NoAddr for None.
connection_addr_from_pidfile(c, f) ==
    IF ~f.exists \/ PidFileName \notin f.files
    THEN [addr |-> NoAddr, exc |-> NoExc]                 \* FileNotFoundError
    ELSE LET lines == f.pidfile IN
         IF Len(lines) < 6 THEN [addr |-> NoAddr, exc |-> NoExc]
         ELSE IF ~IsInt(lines[1]) THEN [addr |-> NoAddr, exc |-> "ValueError"]
         ELSE LET pmpid == IntOf(lines[1]) IN
              IF Truthy(c.daemon_pid) /\ pmpid # c.daemon_pid
              THEN [addr |-> NoAddr, exc |-> NoExc]
              ELSE [addr |-> [host |-> HostOf(c.data_dir, lines[5], lines[6]),
                              port |-> lines[4]],
                    exc |-> NoExc]

\* dict.update: the mapping a with every key of b replaced by b's value.
DictUpdate(a, b) ==
    [k \in (DOMAIN a) \cup (DOMAIN b) |-> IF k \in DOMAIN b THEN b[k] ELSE a[k]]

\* An empty dict (falsy, like None, where the override is tested).
EmptyDict == [k \in {} |-> << >>]

---------------------------------------------------------------------------
(* The machine: handle, data directory, environment, and the call so far *)

ManagedVariants == {"Cluster", "HotStandbyCluster"}
Statuses == {"not-initialized", "stopped", "running"}

\* What the installation offers: the pg_config executable, the bindir and
\* version keys of its output, and the binaries of the bindir.
AllBins == {"pg_config", "bindir", "version", "pg_ctl", "postgres", "pg_basebackup"}

DataDir == <<Slash, "data">>
MasterSpec == [host |-> <<"primary">>, port |-> <<"5432">>]
ReplUser == "replicator"

\* Cluster.__init__ (and TempCluster's, HotStandbyCluster's), RunningCluster.__init__.
NewCluster(variant) ==
    [variant |-> variant,
     data_dir |-> IF variant \in ManagedVariants THEN DataDir ELSE Unset,
     pg_config |-> IF variant \in ManagedVariants THEN None ELSE Unset,
     pg_config_data |-> IF variant \in ManagedVariants THEN None ELSE Unset,
     pg_version |-> Unset,
     pg_ctl |-> IF variant \in ManagedVariants THEN None ELSE Unset,
     postgres |-> Unset,
     pg_basebackup |-> Unset,
     daemon_pid |-> NoPid,
     daemon_process |-> NoPid,
     connection_addr |-> NoAddr,
     connection_spec_override |-> NoAddr,
     conn_spec |-> NoAddr]

\* tempfile.mkdtemp: a data directory that exists and is empty.
EmptyDir ==
    [exists |-> TRUE, files |-> {}, pg_hba |-> << >>, pidfile |-> << >>,
     recovery |-> << >>, readonly |-> FALSE]

AbsentDir == [EmptyDir EXCEPT !.exists = FALSE]

\* How pg_ctl status behaves during one call of an operation: Faithful is as
\* documented; any other value is the exit code and the process id it reports
\* whatever the directory holds.
Faithful == [faithful |-> TRUE]
StatusOutcomes ==
    [rc : {1, 3, 4}, pid : {NoPid}] \cup [rc : {0}, pid : PIDs \cup {NoPid}]

\* The machine at the start of a call: calls are the programs run and the
\* effects made so far, outs what each run of pg_ctl status has reported, rcs
\* the exit codes of the other programs run and seen the statuses get_status
\* has returned so far.
Machine(c, f, e, tool) ==
    [c |-> c, f |-> f, e |-> e, tool |-> tool, calls |-> << >>, seen |-> << >>,
     outs |-> << >>, rcs |-> << >>, exc |-> NoExc, ret |-> None]

Raise(m, kind) == [m EXCEPT !.exc = kind, !.ret = None]
Return(m, value) == [m EXCEPT !.ret = value]
Observe(m, status) == [m EXCEPT !.ret = status, !.seen = Append(@, status)]
Call(m, what) == [m EXCEPT !.calls = Append(@, what)]
Exit(m, rc) == [m EXCEPT !.ret = rc, !.rcs = Append(@, rc)]
Failed(m) == m.exc # NoExc

---------------------------------------------------------------------------
(* The external programs, by their documented behaviour *)

\* The status file a postmaster with process id pid writes in its data directory.
ServerPidFile(pid) ==
    <<Numeral(pid), DataDir, <<"1478000000">>, <<"5432">>, <<Slash, "tmp">>,
      <<"localhost">>, <<"5432001">>>>

\* The process id in a status file's first line, NoPid when there is none.
PidFilePid(f) ==
    IF f.exists /\ PidFileName \in f.files /\ Len(f.pidfile) >= 1 /\ IsInt(f.pidfile[1])
    THEN IntOf(f.pidfile[1])
    ELSE NoPid

Initialized(f) == f.exists /\ "PG_VERSION" \in f.files

\* The server is up: alive, with its status file written.
ServerUp(f, e) == e.server # NoPid /\ Initialized(f) /\ PidFilePid(f) = e.server

\* pg_ctl status -D data_dir as documented: 4 without a valid data directory,
\* 3 without a running server, 0 and the server's process id otherwise.
FaithfulStatus(f, e) ==
    IF ~Initialized(f) THEN [rc |-> 4, pid |-> NoPid]
    ELSE IF ServerUp(f, e) THEN [rc |-> 0, pid |-> e.server]
    ELSE [rc |-> 3, pid |-> NoPid]

StatusTool(m) ==
    IF m.tool = Faithful THEN FaithfulStatus(m.f, m.e) ELSE m.tool

\* The postmaster writes its status file (it is alive and the directory is there).
WritePidFile(m) ==
    IF m.e.server # NoPid /\ m.f.exists
    THEN [m EXCEPT !.f.files = @ \cup {PidFileName},
                   !.f.pidfile = ServerPidFile(m.e.server)]
    ELSE m

---------------------------------------------------------------------------
(* Environment resolution, connection discovery, readiness wait, status *)

\* Cluster._find_pg_binary(binary): the path, or ClusterError.
find_pg_binary(m, binary) ==
    IF "bindir" \notin m.e.install THEN Raise(m, "ClusterError")
    ELSE IF binary \notin m.e.install THEN Raise(m, "ClusterError")
    ELSE Return(m, binary)

\* Cluster._init_env: each assignment is made as soon as its value is found.
ClusterInitEnv(m) ==
    IF "pg_config" \notin m.e.install THEN Raise(m, "ClusterError")
    ELSE Let([Call(m, "pg_config") EXCEPT !.c.pg_config = "pg_config",
                                          !.c.pg_config_data = "data"], LAMBDA m2 :
         IF "version" \notin m2.e.install THEN Raise(m2, "ClusterError")
         ELSE Let(find_pg_binary([m2 EXCEPT !.c.pg_version = "version"], "pg_ctl"),
                  LAMBDA m4 :
              IF Failed(m4) THEN m4
              ELSE Let(find_pg_binary([m4 EXCEPT !.c.pg_ctl = m4.ret], "postgres"),
                       LAMBDA m6 :
                   IF Failed(m6) THEN m6
                   ELSE Return([m6 EXCEPT !.c.postgres = m6.ret], None))))

\* HotStandbyCluster._init_env adds the backup tool to Cluster._init_env.
init_env(m) ==
    Let(ClusterInitEnv(m), LAMBDA m1 :
        IF m1.c.variant # "HotStandbyCluster" \/ Failed(m1) THEN m1
        ELSE Let(find_pg_binary(m1, "pg_basebackup"), LAMBDA m2 :
             IF Failed(m2) THEN m2
             ELSE Return([m2 EXCEPT !.c.pg_basebackup = m2.ret], None)))

\* The first statement of Cluster._get_connection_spec: the address is read
\* from the status file when none is cached.
CacheAddr(m) ==
    IF m.c.connection_addr # NoAddr THEN m
    ELSE Let(connection_addr_from_pidfile(m.c, m.f), LAMBDA r :
         IF r.exc # NoExc THEN Raise(m, r.exc)
         ELSE [m EXCEPT !.c.connection_addr = r.addr])

\* Cluster._get_connection_spec: the cached address with the override applied;
\* NoAddr for None.
get_connection_spec_(m) ==
    Let(CacheAddr(m), LAMBDA m1 :
        IF Failed(m1) THEN m1
        ELSE IF m1.c.connection_addr # NoAddr
        THEN IF /\ m1.c.connection_spec_override # NoAddr
                /\ m1.c.connection_spec_override # EmptyDict
             THEN Return(m1, DictUpdate(m1.c.connection_addr,
                                        m1.c.connection_spec_override))
             ELSE Return(m1, m1.c.connection_addr)
        ELSE Return(m1, NoAddr))

\* What one asyncpg.connect attempt of the readiness wait ends in: an error of
\* the retried classes, another PostgresError, or a connection.
ConnOutcomes == {"unreachable", "pgerror", "connected"}

\* The inputs of a readiness wait: w.ready is the iteration at whose start the
\* booting postmaster writes its status file (0: not during this wait), w.conn
\* the outcome of the connection attempt of each iteration that makes one.
NoWait == [ready |-> 0, conn |-> << >>]

\* The loop with every PostgresError taken for a server that is not ready.
RECURSIVE WaitLoop_every_error_retried(_, _, _, _)
WaitLoop_every_error_retried(i, m, timeout, w) ==
    IF i > timeout THEN m
    ELSE Let(IF i = w.ready THEN WritePidFile(m) ELSE m, LAMBDA m0 :
         Let(IF m0.c.connection_addr = NoAddr THEN get_connection_spec_(m0) ELSE m0,
             LAMBDA m1 :
             IF Failed(m1) THEN m1
             ELSE IF m0.c.connection_addr = NoAddr /\ m1.ret = NoAddr
             THEN WaitLoop_every_error_retried(i + 1, Call(m1, "sleep"), timeout, w)
             ELSE IF w.conn[i] \in {"unreachable", "pgerror"}
             THEN WaitLoop_every_error_retried(
                      i + 1, Call(Call(m1, "connect"), "sleep"), timeout, w)
             ELSE Call(Call(m1, "connect"), "close")))

\* The for loop of Cluster._test_connection from iteration i on.
RECURSIVE WaitLoop(_, _, _, _)
WaitLoop(i, m, timeout, w) ==
    IF i > timeout THEN m
    ELSE Let(IF i = w.ready THEN WritePidFile(m) ELSE m, LAMBDA m0 :
         Let(IF m0.c.connection_addr = NoAddr THEN get_connection_spec_(m0) ELSE m0,
             LAMBDA m1 :
             IF Failed(m1) THEN m1
             ELSE IF m0.c.connection_addr = NoAddr /\ m1.ret = NoAddr
             THEN WaitLoop(i + 1, Call(m1, "sleep"), timeout, w)
             ELSE IF w.conn[i] = "unreachable"
             THEN WaitLoop(i + 1, Call(Call(m1, "connect"), "sleep"), timeout, w)
             ELSE IF w.conn[i] = "pgerror" THEN Call(m1, "connect")
             ELSE Call(Call(m1, "connect"), "close")))

\* _test_connection raising when the loop ends without a break.
test_connection_raising(m, timeout, w) ==
    Let(WaitLoop(1, [m EXCEPT !.c.connection_addr = NoAddr], timeout, w), LAMBDA m1 :
        IF Failed(m1) THEN m1
        ELSE IF m1.calls = << >> \/ m1.calls[Len(m1.calls)] = "sleep"
        THEN Raise(m1, "ClusterError")
        ELSE Return(m1, "running"))

\* Cluster._test_connection(timeout).
test_connection(m, timeout, w) ==
    Let(WaitLoop(1, [m EXCEPT !.c.connection_addr = NoAddr], timeout, w), LAMBDA m1 :
        IF Failed(m1) THEN m1 ELSE Return(m1, "running"))

\* StatusOf with the exit codes 0 and 3 taken for one another.
StatusOf_codes_swapped(m, out) ==
    IF out.rc = 4 THEN Observe(m, "not-initialized")
    ELSE IF ~m.f.exists THEN Raise(m, "FileNotFoundError")
    ELSE IF m.f.files = {} THEN Observe(m, "not-initialized")
    ELSE IF out.rc = 0 THEN Observe(m, "stopped")
    ELSE IF out.rc = 3 THEN Observe(m, "running")
    ELSE Raise(m, "ClusterError")

\* The branches of Cluster.get_status on what pg_ctl status reported (out),
\* m being the machine after the run.
StatusOf(m, out) ==
    IF out.rc = 4 THEN Observe(m, "not-initialized")
    ELSE IF ~m.f.exists THEN Raise(m, "FileNotFoundError")      \* os.listdir
    ELSE IF m.f.files = {} THEN Observe(m, "not-initialized")
    ELSE IF out.rc = 3 THEN Observe(m, "stopped")
    ELSE IF out.rc = 0
    THEN IF out.pid = NoPid THEN Raise(m, "ClusterError")
         ELSE Let(test_connection([m EXCEPT !.c.daemon_pid = out.pid], 0, NoWait),
                  LAMBDA m3 : IF Failed(m3) THEN m3 ELSE Observe(m3, m3.ret))
    ELSE Raise(m, "ClusterError")

\* Cluster.get_status, RunningCluster.get_status.
get_status(m) ==
    IF m.c.variant = "RunningCluster" THEN Observe(m, "running")
    ELSE Let(IF m.c.pg_ctl = None THEN init_env(m) ELSE m, LAMBDA m1 :
         IF Failed(m1) THEN m1
         ELSE Let(StatusTool(m1), LAMBDA out :
              StatusOf([Call(m1, "pg_ctl status") EXCEPT !.outs = Append(@, out)],
                       out)))

---------------------------------------------------------------------------
(* Lifecycle *)

HbaName == "pg_hba.conf"
DefaultHba == <<<<"local", "all", "all", "peer">>>>
InitOutcomes == {"ok", "fail", "partial"}

\* pg_ctl init -D data_dir (initdb): it fills an empty or absent directory;
\* failing, it leaves the directory as it was or partly filled.  ret: exit code.
PgCtlInit(m, how) ==
    IF m.f.exists /\ m.f.files # {} THEN Exit(Call(m, "pg_ctl init"), 1)
    ELSE IF how = "ok"
    THEN Exit([Call(m, "pg_ctl init") EXCEPT !.f.exists = TRUE,
                                               !.f.files = {"PG_VERSION", HbaName},
                                               !.f.pg_hba = DefaultHba], 0)
    ELSE IF how = "partial"
    THEN Exit([Call(m, "pg_ctl init") EXCEPT !.f.exists = TRUE,
                                               !.f.files = {"base"}], 1)
    ELSE Exit(Call(m, "pg_ctl init"), 1)

\* Cluster.init with the status test inverted (== for !=).
ClusterInit_inverted(m, how) ==
    Let(get_status(m), LAMBDA m1 :
        IF Failed(m1) THEN m1
        ELSE IF m1.ret = "not-initialized" THEN Raise(m1, "ClusterError")
        ELSE Let(PgCtlInit(m1, how), LAMBDA m2 :
             IF m2.ret # 0 THEN Raise(m2, "ClusterError")
             ELSE Return(m2, "output")))

\* Cluster.init.
ClusterInit(m, how) ==
    Let(get_status(m), LAMBDA m1 :
        IF Failed(m1) THEN m1
        ELSE IF m1.ret # "not-initialized" THEN Raise(m1, "ClusterError")
        ELSE Let(PgCtlInit(m1, how), LAMBDA m2 :
             IF m2.ret # 0 THEN Raise(m2, "ClusterError")
             ELSE Return(m2, "output")))

\* pg_basebackup -h host -p port -D data_dir -U user: the primary's data
\* directory cloned into this one.  ret: exit code.
PgBaseBackup(m, how) ==
    IF (m.f.exists /\ m.f.files # {}) \/ how # "ok"
    THEN Exit(Call(m, "pg_basebackup"), 1)
    ELSE Exit([Call(m, "pg_basebackup") EXCEPT !.f.exists = TRUE,
                                                 !.f.files = {"PG_VERSION", HbaName},
                                                 !.f.pg_hba = DefaultHba], 0)

\* The recovery.conf HotStandbyCluster.init writes.
RecoveryConf ==
    <<<<"standby_mode", "on">>,
      <<"primary_conninfo", MasterSpec.host, MasterSpec.port, ReplUser>>>>

\* open(data_dir/recovery.conf, 'w') and the write of its two settings.
WriteRecoveryConf(m) ==
    [Call(m, "write recovery.conf") EXCEPT !.f.exists = TRUE,
                                           !.f.files = @ \cup {"recovery.conf"},
                                           !.f.recovery = RecoveryConf]

\* HotStandbyCluster.init writing recovery.conf before it runs pg_basebackup.
HotStandbyInit_conf_first(m, how) ==
    Let(get_status(m), LAMBDA m1 :
        IF Failed(m1) THEN m1
        ELSE IF m1.ret # "not-initialized" THEN Raise(m1, "ClusterError")
        ELSE IF m1.c.pg_basebackup = Unset THEN Raise(m1, "AttributeError")
        ELSE Let(PgBaseBackup(WriteRecoveryConf(m1), how), LAMBDA m2 :
             IF m2.ret # 0 THEN Raise(m2, "ClusterError")
             ELSE Return(m2, "output")))

\* HotStandbyCluster.init.
HotStandbyInit(m, how) ==
    Let(get_status(m), LAMBDA m1 :
        IF Failed(m1) THEN m1
        ELSE IF m1.ret # "not-initialized" THEN Raise(m1, "ClusterError")
        ELSE IF m1.c.pg_basebackup = Unset THEN Raise(m1, "AttributeError")
        ELSE Let(PgBaseBackup(m1, how), LAMBDA m2 :
             IF m2.ret # 0 THEN Raise(m2, "ClusterError")
             ELSE Return(WriteRecoveryConf(m2), "output")))

\* init of the handle's class.
init(m, how) ==
    IF m.c.variant = "RunningCluster" THEN Return(m, None)
    ELSE IF m.c.variant = "HotStandbyCluster" THEN HotStandbyInit(m, how)
    ELSE ClusterInit(m, how)

\* The inputs of start besides wait: b.ssl_key is whether server_settings names
\* an ssl_key_file, b.pid the process id of what is launched, b.boot whether it
\* comes up ("up") or exits at once ("dead"), b.ready and b.conn the inputs of
\* the readiness wait.
BootOutcomes == {"up", "dead"}

\* shutil.copy(ssl_key, data_dir/srvkey.pem) and os.chmod.
CopyKey(m) ==
    Call([m EXCEPT !.f.files = @ \cup {"srvkey.pem"}], "copy ssl key")

\* The daemon spawned by start: subprocess.Popen([self._postgres, ...]).
Spawn(m, b) ==
    [Call(m, "spawn postgres") EXCEPT
        !.c.daemon_process = b.pid,
        !.c.daemon_pid = b.pid,
        !.e.server = IF b.boot = "up" THEN b.pid ELSE @]

\* The launch of start, after the status test: pg_ctl start on Windows, the
\* postgres daemon spawned directly elsewhere.
Launch(m, b) ==
    IF m.e.system = "Windows"
    THEN IF b.boot # "up"
         THEN Raise(Exit(Call(m, "pg_ctl start"), 1), "AttributeError")
         ELSE [Exit(Call(m, "pg_ctl start"), 0) EXCEPT !.e.server = b.pid]
    ELSE IF m.c.postgres = Unset THEN Raise(m, "AttributeError")
    ELSE Spawn(m, b)

\* Cluster.start without the early return of a running cluster.
start_without_early_return(m, wait, b) ==
    Let(get_status(m), LAMBDA m1 :
        IF Failed(m1) THEN m1
        ELSE IF m1.ret = "not-initialized" THEN Raise(m1, "ClusterError")
        ELSE Let(Launch(IF b.ssl_key THEN CopyKey(m1) ELSE m1, b), LAMBDA m3 :
             IF Failed(m3) THEN m3
             ELSE Let(test_connection(Call(m3, "wait"), wait,
                                      [ready |-> b.ready, conn |-> b.conn]),
                      LAMBDA m4 : IF Failed(m4) THEN m4 ELSE Return(m4, None))))

\* Cluster.start(wait, server_settings), RunningCluster.start.
start(m, wait, b) ==
    IF m.c.variant = "RunningCluster" THEN Return(m, None)
    ELSE Let(get_status(m), LAMBDA m1 :
         IF Failed(m1) THEN m1
         ELSE IF m1.ret = "running" THEN Return(m1, None)
         ELSE IF m1.ret = "not-initialized" THEN Raise(m1, "ClusterError")
         ELSE Let(Launch(IF b.ssl_key THEN CopyKey(m1) ELSE m1, b), LAMBDA m3 :
              IF Failed(m3) THEN m3
              ELSE Let(test_connection(Call(m3, "wait"), wait,
                                       [ready |-> b.ready, conn |-> b.conn]),
                       LAMBDA m4 : IF Failed(m4) THEN m4 ELSE Return(m4, None))))

\* reload without the test of the status.
reload_any_status(m, rc) ==
    Let(get_status(m), LAMBDA m1 :
        IF Failed(m1) THEN m1
        ELSE IF m1.c.pg_ctl = Unset THEN Raise(m1, "AttributeError")
        ELSE Let(Exit(Call(m1, "pg_ctl reload"), rc), LAMBDA m2 :
             IF rc # 0 THEN Raise(m2, "ClusterError") ELSE Return(m2, None)))

\* Cluster.reload; rc is the exit code of pg_ctl reload.
reload(m, rc) ==
    Let(get_status(m), LAMBDA m1 :
        IF Failed(m1) THEN m1
        ELSE IF m1.ret # "running" THEN Raise(m1, "ClusterError")
        ELSE IF m1.c.pg_ctl = Unset THEN Raise(m1, "AttributeError")
        ELSE Let(Exit(Call(m1, "pg_ctl reload"), rc), LAMBDA m2 :
             IF rc # 0 THEN Raise(m2, "ClusterError") ELSE Return(m2, None)))

\* pg_ctl stop -D data_dir -m fast: a server that is up is shut down and its
\* status file removed, unless the tool fails.  ret: exit code.
PgCtlStop(m, ok) ==
    IF ServerUp(m.f, m.e) /\ ok
    THEN Exit([Call(m, "pg_ctl stop") EXCEPT !.e.server = NoPid,
                                               !.f.files = @ \ {PidFileName},
                                               !.f.pidfile = << >>], 0)
    ELSE Exit(Call(m, "pg_ctl stop"), 1)

\* Popen.kill of the daemon spawned by start.
Kill(m) ==
    [Call(m, "kill") EXCEPT
        !.e.server = IF @ = m.c.daemon_process THEN NoPid ELSE @]

\* Cluster.stop, were it not overridden by RunningCluster.
stop_not_overridden(m, ok) ==
    IF m.c.pg_ctl = Unset THEN Raise(m, "AttributeError")
    ELSE IF m.c.pg_ctl = None THEN Raise(Call(m, "None stop"), "TypeError")
    ELSE Let(PgCtlStop(m, ok), LAMBDA m1 :
         IF m1.ret # 0 THEN Raise(m1, "ClusterError")
         ELSE IF m1.c.daemon_process # NoPid THEN Return(Kill(m1), None)
         ELSE Return(m1, None))

\* Cluster.stop(wait), RunningCluster.stop.
stop(m, ok) ==
    IF m.c.variant = "RunningCluster" THEN Return(m, None)
    ELSE IF m.c.pg_ctl = None THEN Raise(Call(m, "None stop"), "TypeError")
    ELSE Let(PgCtlStop(m, ok), LAMBDA m1 :
         IF m1.ret # 0 THEN Raise(m1, "ClusterError")
         ELSE IF m1.c.daemon_process # NoPid THEN Return(Kill(m1), None)
         ELSE Return(m1, None))

\* shutil.rmtree(data_dir).
RmTree(m) ==
    IF ~m.f.exists THEN Raise(Call(m, "rmtree"), "FileNotFoundError")
    ELSE [Call(m, "rmtree") EXCEPT !.f = [AbsentDir EXCEPT !.readonly = m.f.readonly]]

\* Cluster.destroy refusing only a cluster that is not initialized.
destroy_running_too(m) ==
    Let(get_status(m), LAMBDA m1 :
        IF Failed(m1) THEN m1
        ELSE IF m1.ret = "stopped" \/ m1.ret = "running"
        THEN Let(RmTree(m1), LAMBDA m2 : IF Failed(m2) THEN m2 ELSE Return(m2, None))
        ELSE Raise(m1, "ClusterError"))

\* Cluster.destroy, RunningCluster.destroy.
destroy(m) ==
    IF m.c.variant = "RunningCluster" THEN Return(m, None)
    ELSE Let(get_status(m), LAMBDA m1 :
         IF Failed(m1) THEN m1
         ELSE IF m1.ret = "stopped" \/ m1.ret = "not-initialized"
         THEN Let(RmTree(m1), LAMBDA m2 : IF Failed(m2) THEN m2 ELSE Return(m2, None))
         ELSE Raise(m1, "ClusterError"))

\* get_connection_spec without the status query before the address is read.
get_connection_spec_unqueried(m) ==
    IF m.c.variant = "RunningCluster" THEN Return(m, m.c.conn_spec)
    ELSE get_connection_spec_(Observe(m, "running"))

\* Cluster.get_connection_spec, RunningCluster.get_connection_spec.
get_connection_spec(m) ==
    IF m.c.variant = "RunningCluster" THEN Return(m, m.c.conn_spec)
    ELSE Let(get_status(m), LAMBDA m1 :
         IF Failed(m1) THEN m1
         ELSE IF m1.ret # "running" THEN Raise(m1, "ClusterError")
         ELSE get_connection_spec_(m1))

\* Cluster.override_connection_spec(**kwargs).
override_connection_spec(m, kwargs) ==
    Return([m EXCEPT !.c.connection_spec_override = kwargs], None)

---------------------------------------------------------------------------
(* Access control: pg_hba.conf *)

HbaTypes == {"local", "host", "hostssl", "hostnossl"}

\* ' '.join('{}={}'.format(k, v) for k, v in auth_options), as words.
RECURSIVE OptionWords(_)
OptionWords(auth_options) ==
    IF auth_options = << >> THEN << >>
    ELSE <<Head(auth_options)[1] \o "=" \o Head(auth_options)[2]>>
             \o OptionWords(Tail(auth_options))

\* The record add_hba_entry formats: a.type, a.database, a.user, the address
\* unless the type is local, a.auth_method, the options if any.
HbaRecord(a) ==
    <<a.type, a.database, a.user>>
        \o (IF a.type # "local" THEN <<a.address>> ELSE << >>)
        \o <<a.auth_method>>
        \o (IF a.auth_options # NoOptions
            THEN OptionWords(a.auth_options.items) ELSE << >>)

\* open(pg_hba, mode) fails with an IOError: the file cannot be written.
HbaOpenFails(m) == ~m.f.exists \/ m.f.readonly

\* Cluster.reset_hba, RunningCluster.reset_hba.
reset_hba(m) ==
    IF m.c.variant = "RunningCluster" THEN Raise(m, "ClusterError")
    ELSE Let(get_status(m), LAMBDA m1 :
         IF Failed(m1) THEN m1
         ELSE IF m1.ret = "not-initialized" THEN Raise(m1, "ClusterError")
         ELSE IF HbaOpenFails(m1) THEN Raise(m1, "ClusterError")
         ELSE Return([m1 EXCEPT !.f.files = @ \cup {HbaName}, !.f.pg_hba = << >>],
                     None))

\* Cluster.add_hba_entry without the test of a null address.
add_hba_entry_any_address(m, a) ==
    IF m.c.variant = "RunningCluster" THEN Raise(m, "ClusterError")
    ELSE Let(get_status(m), LAMBDA m1 :
         IF Failed(m1) THEN m1
         ELSE IF m1.ret = "not-initialized" THEN Raise(m1, "ClusterError")
         ELSE IF a.type \notin HbaTypes THEN Raise(m1, "ValueError")
         ELSE IF HbaOpenFails(m1) THEN Raise(m1, "ClusterError")
         ELSE Return([m1 EXCEPT !.f.files = @ \cup {HbaName},
                                !.f.pg_hba = Append(@, HbaRecord(a))], None))

\* Cluster.add_hba_entry(type, database, user, address, auth_method,
\* auth_options), RunningCluster.add_hba_entry.
add_hba_entry(m, a) ==
    IF m.c.variant = "RunningCluster" THEN Raise(m, "ClusterError")
    ELSE Let(get_status(m), LAMBDA m1 :
         IF Failed(m1) THEN m1
         ELSE IF m1.ret = "not-initialized" THEN Raise(m1, "ClusterError")
         ELSE IF a.type \notin HbaTypes THEN Raise(m1, "ValueError")
         ELSE IF a.type # "local" /\ a.address = None THEN Raise(m1, "ValueError")
         ELSE IF HbaOpenFails(m1) THEN Raise(m1, "ClusterError")
         ELSE Return([m1 EXCEPT !.f.files = @ \cup {HbaName},
                                !.f.pg_hba = Append(@, HbaRecord(a))], None))

HbaArgs(type, database, user, address) ==
    [type |-> type, database |-> database, user |-> user, address |-> address,
     auth_method |-> "trust", auth_options |-> NoOptions]

\* The three add_hba_entry calls of the trust helpers, for a database and a
\* user: the local one is skipped on Windows; the first failure ends them.
AddTrustEntries(m, database, user) ==
    Let(IF m.e.system # "Windows"
        THEN add_hba_entry(m, HbaArgs("local", database, user, None))
        ELSE m, LAMBDA m1 :
        IF Failed(m1) THEN m1
        ELSE Let(add_hba_entry(m1, HbaArgs("host", database, user, "127.0.0.1/32")),
                 LAMBDA m2 :
             IF Failed(m2) THEN m2
             ELSE add_hba_entry(m2, HbaArgs("host", database, user, "::1/128"))))

\* The end of both trust helpers: reload if the cluster is running.
ReloadIfRunning(m, rc) ==
    Let(get_status(m), LAMBDA m1 :
        IF Failed(m1) THEN m1
        ELSE IF m1.ret = "running" THEN reload(m1, rc)
        ELSE Return(m1, None))

\* Cluster.trust_local_connections without the reset of the file.
trust_local_connections_no_reset(m, rc) ==
    Let(AddTrustEntries(m, "all", "all"), LAMBDA m2 :
        IF Failed(m2) THEN m2 ELSE ReloadIfRunning(m2, rc))

\* Cluster.trust_local_connections; rc is the exit code of pg_ctl reload.
trust_local_connections(m, rc) ==
    Let(reset_hba(m), LAMBDA m1 :
        IF Failed(m1) THEN m1
        ELSE Let(AddTrustEntries(m1, "all", "all"), LAMBDA m2 :
             IF Failed(m2) THEN m2 ELSE ReloadIfRunning(m2, rc)))

\* trust_local_replication_by with a reset of the file before its entries.
trust_local_replication_by_reset(m, user, rc) ==
    Let(reset_hba(m), LAMBDA m1 :
        IF Failed(m1) THEN m1
        ELSE Let(AddTrustEntries(m1, "replication", user), LAMBDA m2 :
             IF Failed(m2) THEN m2 ELSE ReloadIfRunning(m2, rc)))

\* Cluster.trust_local_replication_by(user).
trust_local_replication_by(m, user, rc) ==
    Let(AddTrustEntries(m, "replication", user), LAMBDA m1 :
        IF Failed(m1) THEN m1 ELSE ReloadIfRunning(m1, rc))

---------------------------------------------------------------------------
(* The state machine *)

ToolModes == {Faithful} \cup StatusOutcomes

\* The machine a call starts from, pg_ctl status behaving as tool during it.
M(tool) == Machine(cluster, fs, env, tool)

\* The caller is between two calls: it has taken the result of the last one.
Idle == last.op = "idle"

\* The state after a call that ended in machine m, and the record of the call;
\* ok is whether every program the call ran behaved and succeeded.
Finish(m, op, args, ok) ==
    /\ cluster' = m.c
    /\ fs' = m.f
    /\ env' = m.e
    /\ net' = net
    /\ last' = [op |-> op, args |-> args, exc |-> m.exc, ret |-> m.ret,
                calls |-> m.calls, seen |-> m.seen, outs |-> m.outs, rcs |-> m.rcs,
                faithful |-> m.tool = Faithful, ok |-> ok, after |-> last.after]

\* The record of something that happened outside the program.
Event(what) ==
    [op |-> what, args |-> << >>, exc |-> NoExc, ret |-> None, calls |-> << >>,
     seen |-> << >>, outs |-> << >>, rcs |-> << >>, faithful |-> TRUE,
     ok |-> FALSE,
     after |-> last.after]

\* The record between two calls: after names the last call of the lifecycle if
\* it succeeded and nothing but get_status calls were made since ("new": the
\* handle was just constructed and nothing but get_status calls were made).
Between(after) ==
    [op |-> "idle", args |-> << >>, exc |-> NoExc, ret |-> None, calls |-> << >>,
     seen |-> << >>, outs |-> << >>, rcs |-> << >>, faithful |-> TRUE,
     ok |-> FALSE,
     after |-> after]

Lifecycle == {"init", "start", "stop"}

\* The caller takes the result of the call; the next call can be made.
TakeResult ==
    /\ ~Idle
    /\ last' = Between(IF last.op \in Lifecycle /\ last.ok THEN last.op
                        ELSE IF last.op = "get_status" THEN last.after
                        ELSE "-")
    /\ UNCHANGED <<cluster, fs, env, net>>

\* The status a call would first observe, "error" when get_status raises.
FirstStatus(tool) ==
    Let(get_status(M(tool)), LAMBDA st : IF Failed(st) THEN "error" ELSE st.ret)

\* The connection outcomes of a wait of n iterations that differ in effect:
\* the wait reads them up to the first that is not "unreachable".
ConnSeqs(n) ==
    {[i \in 1..n |-> "unreachable"]}
        \cup {[i \in 1..n |-> IF i = j THEN k ELSE "unreachable"] :
                 j \in 1..n, k \in {"pgerror", "connected"}}

NoBoot ==
    [ssl_key |-> FALSE, pid |-> NoPid, boot |-> "dead", ready |-> 0, conn |-> << >>]

\* What the launch of a start with this wait may meet: a new process takes a
\* process id no live process has; it cannot come up beside a live server; a
\* connection attempt is answered only by a server that is up, which has
\* written its status file.
BootInputs(wait) ==
    {b \in [ssl_key : BOOLEAN, pid : PIDs \ {env.server}, boot : BootOutcomes,
            ready : 0..wait, conn : ConnSeqs(wait)] :
        /\ b.boot = "dead" => b.ready = 0
        /\ env.server # NoPid => b.boot = "dead"
        /\ \A i \in 1..wait :
               b.conn[i] # "unreachable"
                   => (ServerUp(fs, env) \/ (b.ready >= 1 /\ i >= b.ready))}

GetStatus ==
    /\ Idle
    /\ \E tool \in ToolModes :
           \E m \in {get_status(M(tool))} :
               Finish(m, "get_status", << >>, ~Failed(m) /\ tool = Faithful)

Init_ ==
    /\ Idle
    /\ \E tool \in ToolModes :
           \E how \in IF FirstStatus(tool) = "not-initialized"
                      THEN InitOutcomes ELSE {"ok"} :
               \E m \in {init(M(tool), how)} :
                   Finish(m, "init", [how |-> how], ~Failed(m) /\ tool = Faithful)

Start ==
    /\ Idle
    /\ \E tool \in ToolModes, wait \in 0..MaxWait :
           \E st \in {FirstStatus(tool)} :
               \E b \in IF st = "stopped" THEN BootInputs(wait)
                        ELSE {[NoBoot EXCEPT !.ssl_key = k] : k \in BOOLEAN} :
                   \E m \in {start(M(tool), wait, b)} :
                       Finish(m, "start", [wait |-> wait, ssl_key |-> b.ssl_key],
                              /\ ~Failed(m) /\ tool = Faithful
                              /\ st = "stopped" => (b.boot = "up" /\ b.ready >= 1))

Stop ==
    /\ Idle
    /\ \E ok \in IF ServerUp(fs, env) THEN BOOLEAN ELSE {FALSE} :
           \E m \in {stop(M(Faithful), ok)} :
               Finish(m, "stop", << >>, ~Failed(m))

Reload ==
    /\ Idle
    /\ \E tool \in ToolModes :
           \E rc \in IF FirstStatus(tool) = "running" THEN {0, 1} ELSE {0} :
               \E m \in {reload(M(tool), rc)} :
                   Finish(m, "reload", [rc |-> rc], ~Failed(m) /\ tool = Faithful)

Destroy ==
    /\ Idle
    /\ \E tool \in ToolModes :
           \E m \in {destroy(M(tool))} :
               Finish(m, "destroy", << >>, ~Failed(m) /\ tool = Faithful)

\* args.cached is the address the handle holds when the call is made.
GetConnectionSpec ==
    /\ Idle
    /\ \E tool \in ToolModes :
           \E m \in {get_connection_spec(M(tool))} :
               Finish(m, "get_connection_spec", [cached |-> cluster.connection_addr],
                      ~Failed(m) /\ tool = Faithful)

\* The server process dies, leaving its status file behind.
ServerCrash ==
    /\ Idle
    /\ env.server # NoPid
    /\ env' = [env EXCEPT !.server = NoPid]
    /\ last' = Event("server crash")
    /\ UNCHANGED <<cluster, fs, net>>

\* A server that is still booting writes its status file.
PostmasterReady ==
    /\ Idle
    /\ env.server # NoPid
    /\ Initialized(fs)
    /\ PidFilePid(fs) # env.server
    /\ fs' = WritePidFile(M(Faithful)).f
    /\ last' = Event("postmaster ready")
    /\ UNCHANGED <<cluster, env, net>>

NoNet == [in_use |-> {}, denied |-> {}]

\* A Cluster on a fresh, empty data directory, on either platform.
Init ==
    /\ cluster = NewCluster("Cluster")
    /\ fs = EmptyDir
    /\ env \in [system : {"Linux", "Windows"}, install : {AllBins}, server : {NoPid}]
    /\ net = NoNet
    /\ last = Between("new")

Next ==
    \/ GetStatus
    \/ Init_
    \/ Start
    \/ Stop
    \/ Reload
    \/ Destroy
    \/ GetConnectionSpec
    \/ ServerCrash
    \/ PostmasterReady
    \/ TakeResult

Spec == Init /\ [][Next]_vars

---------------------------------------------------------------------------
(* The port search (specification SpecPort) *)

\* find_available_port((low, high), max_tries): random.randint needs low <= high.
FindAvailablePort ==
    /\ Idle
    /\ \E low \in Ports, high \in Ports, max_tries \in 0..MaxTries :
           /\ low <= high
           /\ \E draws \in [1..max_tries -> low..high] :
                  last' = [Event("find_available_port") EXCEPT
                              !.args = [low |-> low, high |-> high,
                                        max_tries |-> max_tries, draws |-> draws],
                              !.ret = find_available_port(low, high, max_tries, draws)]
    /\ UNCHANGED <<cluster, fs, env, net>>

\* Another process binds a port of 127.0.0.1, or a port becomes privileged.
PortTaken ==
    /\ Idle
    /\ \E port \in Ports \ (net.in_use \cup net.denied) :
           \/ net' = [net EXCEPT !.in_use = @ \cup {port}]
           \/ net' = [net EXCEPT !.denied = @ \cup {port}]
    /\ UNCHANGED <<cluster, fs, env, last>>

\* A port is released.
PortFreed ==
    /\ Idle
    /\ \E port \in net.in_use \cup net.denied :
           net' = [in_use |-> net.in_use \ {port}, denied |-> net.denied \ {port}]
    /\ UNCHANGED <<cluster, fs, env, last>>

InitPort ==
    /\ cluster = NewCluster("Cluster")
    /\ fs = EmptyDir
    /\ env = [system |-> "Linux", install |-> AllBins, server |-> NoPid]
    /\ net = NoNet
    /\ last = Between("new")

NextPort ==
    \/ FindAvailablePort
    \/ PortTaken
    \/ PortFreed
    \/ TakeResult

SpecPort == InitPort /\ [][NextPort]_vars

---------------------------------------------------------------------------
(* Connection discovery (specification SpecAddr) *)

\* The data directory after a successful pg_ctl init.
InitializedDir ==
    [EmptyDir EXCEPT !.files = {"PG_VERSION", HbaName}, !.pg_hba = DefaultHba]

\* Status files a postmaster of this data directory may have written: its
\* lines appear one after another while it starts; unix_socket_directories
\* and listen_addresses are as configured.
SockDirs == {<< >>, <<Slash, "tmp">>, <<"sock">>, <<Dot>>, <<DotDot, "run">>, <<"*">>}
ListenAddrs == {<<"*">>, <<"0.0.0.0">>, <<"::">>, <<"localhost">>, << >>}
PortLines == {<<"5432">>, <<"5433">>}
PidFiles ==
    {SubSeq(<<Numeral(pid), DataDir, <<"1478000000">>, port, sockdir, hostaddr,
              <<"5432001">>>>, 1, n) :
        pid \in PIDs, port \in PortLines, sockdir \in SockDirs,
        hostaddr \in ListenAddrs, n \in {3, 6, 7}}

\* The keyword arguments override_connection_spec is called with.
Overrides ==
    {EmptyDict,
     [host |-> <<"db.example">>],
     [port |-> <<"6543">>],
     [host |-> <<"db.example">>, port |-> <<"6543">>],
     [database |-> <<"postgres">>]}

\* _get_connection_spec, as get_connection_spec and _test_connection call it.
GetConnectionSpec_ ==
    /\ Idle
    /\ \E m \in {get_connection_spec_(M(Faithful))} :
           Finish(m, "_get_connection_spec", << >>, ~Failed(m))

OverrideConnectionSpec ==
    /\ Idle
    /\ \E kwargs \in Overrides :
           \E m \in {override_connection_spec(M(Faithful), kwargs)} :
               Finish(m, "override_connection_spec", kwargs, TRUE)

\* A handle that may have recorded a process id, on a data directory whose
\* server has written its status file.
InitAddr ==
    /\ cluster \in {[NewCluster("Cluster") EXCEPT !.daemon_pid = pid] :
                       pid \in PIDs \cup {NoPid}}
    /\ fs \in {[InitializedDir EXCEPT !.files = @ \cup {PidFileName},
                                      !.pidfile = lines] : lines \in PidFiles}
    /\ env = [system |-> "Linux", install |-> AllBins, server |-> NoPid]
    /\ net = NoNet
    /\ last = Between("new")

NextAddr ==
    \/ GetConnectionSpec_
    \/ OverrideConnectionSpec
    \/ TakeResult

SpecAddr == InitAddr /\ [][NextAddr]_vars

---------------------------------------------------------------------------
(* The replica (specification SpecStandby) *)

\* A HotStandbyCluster on the fresh, empty directory TempCluster made for it,
\* on either platform.
InitStandby ==
    /\ cluster = NewCluster("HotStandbyCluster")
    /\ fs = EmptyDir
    /\ env \in [system : {"Linux", "Windows"}, install : {AllBins}, server : {NoPid}]
    /\ net = NoNet
    /\ last = Between("new")

SpecStandby == InitStandby /\ [][Next]_vars

---------------------------------------------------------------------------
(* Environment resolution (specification SpecEnv) *)

\* What an installation may lack: a binary of the bindir.
Installs == {AllBins} \cup {AllBins \ {binary} : binary \in {"pg_ctl", "postgres",
                                                           "pg_basebackup"}}

\* A managed handle of either class on a fresh, empty directory, the
\* installation complete or lacking one binary.
InitEnv ==
    /\ cluster \in {NewCluster(variant) : variant \in ManagedVariants}
    /\ fs = EmptyDir
    /\ env \in [system : {"Linux", "Windows"}, install : Installs, server : {NoPid}]
    /\ net = NoNet
    /\ last = Between("new")

SpecEnv == InitEnv /\ [][Next]_vars

---------------------------------------------------------------------------
(* The cached address (specification SpecCache) *)

\* The server is restarted outside the handle with another port setting, or is
\* seen while it is still writing its status file.
StatusFileRewritten ==
    /\ Idle
    /\ Initialized(fs)
    /\ \E pid \in PIDs, port \in PortLines, n \in {3, 7} :
           /\ env' = [env EXCEPT !.server = pid]
           /\ fs' = [fs EXCEPT
                        !.files = @ \cup {PidFileName},
                        !.pidfile = SubSeq([ServerPidFile(pid) EXCEPT ![4] = port],
                                           1, n)]
    /\ last' = Event("status file rewritten")
    /\ UNCHANGED <<cluster, net>>

\* A Cluster for an initialized directory whose server is up.
InitCache ==
    /\ cluster = NewCluster("Cluster")
    /\ fs \in {[InitializedDir EXCEPT !.files = @ \cup {PidFileName},
                                      !.pidfile = ServerPidFile(pid)] : pid \in PIDs}
    /\ env = [system |-> "Linux", install |-> AllBins, server |-> PidFilePid(fs)]
    /\ net = NoNet
    /\ last = Between("-")

NextCache ==
    \/ GetStatus
    \/ GetConnectionSpec
    \/ Start
    \/ Stop
    \/ StatusFileRewritten
    \/ ServerCrash
    \/ TakeResult

SpecCache == InitCache /\ [][NextCache]_vars

---------------------------------------------------------------------------
(* The readiness wait (specification SpecWait) *)

\* _test_connection(timeout): w.ready is the iteration at whose start a live
\* server writes its status file (0: not during this wait), w.conn what the
\* connection attempt of each iteration ends in.
TestConnection ==
    /\ Idle
    /\ \E timeout \in 0..MaxTimeout :
           \E ready \in 0..timeout, conn \in [1..timeout -> ConnOutcomes] :
               \E m \in {test_connection(M(Faithful), timeout,
                                         [ready |-> ready, conn |-> conn])} :
                   Finish(m, "_test_connection",
                          [timeout |-> timeout, ready |-> ready, conn |-> conn],
                          ~Failed(m))

\* A handle that may have recorded a process id, on a data directory with no
\* status file, one being written, or a complete one, the server that wrote it
\* alive or not.
InitWait ==
    /\ cluster \in {[NewCluster("Cluster") EXCEPT !.daemon_pid = pid] :
                       pid \in PIDs \cup {NoPid}}
    /\ fs \in {InitializedDir}
                 \cup {[InitializedDir EXCEPT
                           !.files = @ \cup {PidFileName},
                           !.pidfile = SubSeq(ServerPidFile(pid), 1, n)] :
                          pid \in PIDs, n \in {3, 7}}
    /\ env \in [system : {"Linux"}, install : {AllBins}, server : PIDs \cup {NoPid}]
    /\ net = NoNet
    /\ last = Between("new")

NextWait ==
    \/ TestConnection
    \/ GetConnectionSpec_
    \/ GetConnectionSpec
    \/ ServerCrash
    \/ TakeResult

SpecWait == InitWait /\ [][NextWait]_vars

---------------------------------------------------------------------------
(* Access control (specification SpecHba) *)

\* The arguments add_hba_entry is called with.
HbaEntries ==
    [type : {"local", "host", "bogus"}, database : {"db"}, user : {"u"},
     address : {None, "10.0.0.0/8"}, auth_method : {"md5"},
     auth_options : {NoOptions, [items |-> <<<<"map", "m">>>>]}]

AddHbaEntry ==
    /\ Idle
    /\ Len(fs.pg_hba) < MaxHbaLen
    /\ \E tool \in ToolModes, a \in HbaEntries :
           \E m \in {add_hba_entry(M(tool), a)} :
               Finish(m, "add_hba_entry", a, ~Failed(m) /\ tool = Faithful)

ResetHba ==
    /\ Idle
    /\ \E tool \in ToolModes :
           \E m \in {reset_hba(M(tool))} :
               Finish(m, "reset_hba", << >>, ~Failed(m) /\ tool = Faithful)

TrustLocalConnections ==
    /\ Idle
    /\ \E tool \in ToolModes :
           \E rc \in IF FirstStatus(tool) = "running" THEN {0, 1} ELSE {0} :
               \E m \in {trust_local_connections(M(tool), rc)} :
                   Finish(m, "trust_local_connections", [rc |-> rc],
                          ~Failed(m) /\ tool = Faithful)

TrustLocalReplicationBy ==
    /\ Idle
    /\ Len(fs.pg_hba) < MaxHbaLen
    /\ \E tool \in ToolModes :
           \E rc \in IF FirstStatus(tool) = "running" THEN {0, 1} ELSE {0} :
               \E m \in {trust_local_replication_by(M(tool), ReplUser, rc)} :
                   Finish(m, "trust_local_replication_by", [rc |-> rc],
                          ~Failed(m) /\ tool = Faithful)

\* init, start(wait=1) and stop with every program behaving: the server comes
\* up and answers within the wait.
BootUp(pid) ==
    [ssl_key |-> FALSE, pid |-> pid, boot |-> "up", ready |-> 1,
     conn |-> <<"connected">>]

HbaLifecycle ==
    /\ Idle
    /\ \/ \E m \in {init(M(Faithful), "ok")} : Finish(m, "init", << >>, ~Failed(m))
       \/ /\ env.server = NoPid
          /\ \E m \in {start(M(Faithful), 1, BootUp(1))} :
                 Finish(m, "start", << >>, ~Failed(m))
       \/ /\ ServerUp(fs, env)
          /\ \E m \in {stop(M(Faithful), TRUE)} : Finish(m, "stop", << >>, ~Failed(m))

\* The permissions of pg_hba.conf are changed from outside.
ChmodHba ==
    /\ Idle
    /\ fs.exists
    /\ fs' = [fs EXCEPT !.readonly = ~@]
    /\ UNCHANGED <<cluster, env, net, last>>

\* A Cluster on a data directory that is empty or already initialized.
InitHba ==
    /\ cluster = NewCluster("Cluster")
    /\ fs \in {EmptyDir, InitializedDir}
    /\ env \in [system : {"Linux", "Windows"}, install : {AllBins}, server : {NoPid}]
    /\ net = NoNet
    /\ last = Between("new")

NextHba ==
    \/ AddHbaEntry
    \/ ResetHba
    \/ TrustLocalConnections
    \/ TrustLocalReplicationBy
    \/ HbaLifecycle
    \/ ChmodHba
    \/ TakeResult

SpecHba == InitHba /\ [][NextHba]_vars

---------------------------------------------------------------------------
(* The unmanaged variant (specification SpecUnmanaged) *)

\* The keyword arguments RunningCluster is constructed with.
ConnSpecs ==
    {EmptyDict,
     [host |-> <<"db.example">>, port |-> <<"6543">>],
     [host |-> <<"localhost">>, port |-> <<"5432">>, user |-> <<"postgres">>]}

UnmanagedLifecycle ==
    /\ Idle
    /\ \/ \E m \in {init(M(Faithful), "ok")} :
              Finish(m, "init", << >>, ~Failed(m))
       \/ \E wait \in 0..MaxWait, pid \in PIDs, ssl_key \in BOOLEAN :
              \E m \in {start(M(Faithful), wait,
                              [BootUp(pid) EXCEPT !.ssl_key = ssl_key])} :
                  Finish(m, "start", [wait |-> wait, ssl_key |-> ssl_key], ~Failed(m))
       \/ \E ok \in BOOLEAN :
              \E m \in {stop(M(Faithful), ok)} : Finish(m, "stop", << >>, ~Failed(m))
       \/ \E m \in {destroy(M(Faithful))} : Finish(m, "destroy", << >>, ~Failed(m))

UnmanagedQueries ==
    /\ Idle
    /\ \/ \E m \in {get_status(M(Faithful))} :
              Finish(m, "get_status", << >>, ~Failed(m))
       \/ \E m \in {get_connection_spec(M(Faithful))} :
              Finish(m, "get_connection_spec", << >>, ~Failed(m))

UnmanagedHba ==
    /\ Idle
    /\ \/ \E m \in {reset_hba(M(Faithful))} :
              Finish(m, "reset_hba", << >>, ~Failed(m))
       \/ \E a \in HbaEntries :
              \E m \in {add_hba_entry(M(Faithful), a)} :
                  Finish(m, "add_hba_entry", a, ~Failed(m))
       \/ \E m \in {trust_local_connections(M(Faithful), 0)} :
              Finish(m, "trust_local_connections", << >>, ~Failed(m))
       \/ \E m \in {trust_local_replication_by(M(Faithful), ReplUser, 0)} :
              Finish(m, "trust_local_replication_by", << >>, ~Failed(m))
       \/ \E m \in {reload(M(Faithful), 0)} :
              Finish(m, "reload", << >>, ~Failed(m))

\* The server the handle points at is restarted by whoever manages it.
ServerRestart ==
    /\ Idle
    /\ \E pid \in PIDs \ {env.server} :
           /\ env' = [env EXCEPT !.server = pid]
           /\ fs' = [fs EXCEPT !.files = @ \cup {PidFileName},
                               !.pidfile = ServerPidFile(pid)]
    /\ last' = Event("server restart")
    /\ UNCHANGED <<cluster, net>>

\* A RunningCluster for a server someone else runs, on either platform.
InitUnmanaged ==
    /\ cluster \in {[NewCluster("RunningCluster") EXCEPT !.conn_spec = kwargs] :
                       kwargs \in ConnSpecs}
    /\ fs \in {[InitializedDir EXCEPT !.files = @ \cup {PidFileName},
                                      !.pidfile = ServerPidFile(pid)] : pid \in PIDs}
    /\ env \in [system : {"Linux", "Windows"}, install : {AllBins}, server : PIDs]
    /\ ServerUp(fs, env)
    /\ net = NoNet
    /\ last = Between("new")

NextUnmanaged ==
    \/ UnmanagedLifecycle
    \/ UnmanagedQueries
    \/ UnmanagedHba
    \/ ServerRestart
    \/ ServerCrash
    \/ TakeResult

SpecUnmanaged == InitUnmanaged /\ [][NextUnmanaged]_vars

---------------------------------------------------------------------------
(* Properties of the managed cluster (specification Spec) *)

Range(seq) == {seq[i] : i \in 1..Len(seq)}
CountOf(seq, x) == Cardinality({i \in 1..Len(seq) : seq[i] = x})

\* C1: on a managed cluster, while pg_ctl status behaves as documented,
\* get_status reports 'not-initialized' on the fresh empty data directory,
\* 'stopped' after a successful init, 'running' after a successful start (the
\* server launched came up within the wait) and 'stopped' after a successful
\* stop, nothing but get_status having been called in between.
C1_LifecycleStatuses ==
    (last.op = "get_status" /\ last.faithful) =>
        /\ last.after = "new" => (last.exc = NoExc /\ last.ret = "not-initialized")
        /\ last.after = "init" => (last.exc = NoExc /\ last.ret = "stopped")
        /\ last.after = "start" => (last.exc = NoExc /\ last.ret = "running")
        /\ last.after = "stop" => (last.exc = NoExc /\ last.ret = "stopped")

\* get_status has just reported 'stopped' after a successful stop, which a
\* successful start, and before it a successful init, must have preceded.
C1_Witness ==
    /\ last.op = "get_status"
    /\ last.faithful
    /\ last.after = "stop"
    /\ last.ret = "stopped"

\* C2: a destroy that observes the status 'running' raises ClusterError and
\* leaves the data directory as it was; a destroy that observes 'stopped' or
\* 'not-initialized' leaves no data directory; the directory is never removed
\* by a destroy that observed 'running'.
C2_Destroy ==
    [][(last'.op = "destroy" /\ last'.seen # << >>) =>
          /\ last'.seen[1] = "running" =>
                 (last'.exc = "ClusterError" /\ fs' = fs
                     /\ "rmtree" \notin Range(last'.calls))
          /\ last'.seen[1] \in {"stopped", "not-initialized"} => ~fs'.exists
          /\ (fs.exists /\ ~fs'.exists) => last'.seen[1] # "running"]_vars

\* destroy has just been refused on a running cluster, the directory being there.
C2_Witness ==
    /\ last.op = "destroy"
    /\ last.seen = <<"running">>
    /\ last.exc = "ClusterError"
    /\ fs.exists
    /\ ServerUp(fs, env)

\* C3, as stated: whatever pg_ctl status exits with and whatever the data
\* directory is, get_status returns 'not-initialized' for exit code 4 or an
\* empty directory, else 'stopped' for 3, else for 0 raises ClusterError
\* without a process id and records the process id and returns 'running' with
\* one, and raises ClusterError for any other exit code; nothing else.
C3_StatusMapping ==
    (last.op = "get_status" /\ Len(last.outs) = 1) =>
        IF last.outs[1].rc = 4 \/ (fs.exists /\ fs.files = {})
        THEN last.exc = NoExc /\ last.ret = "not-initialized"
        ELSE IF last.outs[1].rc = 3
        THEN last.exc = NoExc /\ last.ret = "stopped"
        ELSE IF last.outs[1].rc = 0
        THEN IF last.outs[1].pid = NoPid
             THEN last.exc = "ClusterError"
             ELSE /\ last.exc = NoExc
                  /\ last.ret = "running"
                  /\ cluster.daemon_pid = last.outs[1].pid
        ELSE last.exc = "ClusterError"

\* C4: an init that observes a status other than 'not-initialized' raises
\* ClusterError and does not run pg_ctl init; one that observes
\* 'not-initialized' runs pg_ctl init exactly once, raises ClusterError when it
\* exits non-zero and returns its output when it exits zero.
C4_Init ==
    (last.op = "init" /\ last.seen # << >>) =>
        IF last.seen[1] # "not-initialized"
        THEN /\ last.exc = "ClusterError"
             /\ CountOf(last.calls, "pg_ctl init") = 0
        ELSE /\ CountOf(last.calls, "pg_ctl init") = 1
             /\ Len(last.rcs) = 1
             /\ last.rcs[1] # 0 => last.exc = "ClusterError"
             /\ last.rcs[1] = 0 => (last.exc = NoExc /\ last.ret = "output")

\* init has just been refused on a cluster that is already initialized.
C4_Witness ==
    /\ last.op = "init"
    /\ last.seen = <<"stopped">>
    /\ last.exc = "ClusterError"
    /\ Initialized(fs)

StartEffects == {"spawn postgres", "pg_ctl start", "copy ssl key", "wait",
                 "connect", "sleep"}

\* C5: a start that observes 'running' returns without spawning a server,
\* running pg_ctl start, copying a key file or waiting for readiness; one that
\* observes 'not-initialized' raises ClusterError without spawning; a server
\* is launched only by a start that observed 'stopped'.
C5_Start ==
    (last.op = "start" /\ last.seen # << >>) =>
        /\ last.seen[1] = "running" =>
               /\ last.exc = NoExc
               /\ last.ret = None
               /\ Range(last.calls) \cap StartEffects = {}
        /\ last.seen[1] = "not-initialized" =>
               /\ last.exc = "ClusterError"
               /\ Range(last.calls) \cap StartEffects = {}
        /\ Range(last.calls) \cap {"spawn postgres", "pg_ctl start"} # {} =>
               last.seen[1] = "stopped"

\* start has just returned from a running cluster, asked to wait and given an
\* ssl key file to copy.
C5_Witness ==
    /\ last.op = "start"
    /\ last.seen = <<"running">>
    /\ last.args.ssl_key
    /\ last.args.wait > 0
    /\ last.exc = NoExc
    /\ ServerUp(fs, env)

\* C13: a reload that observes a status other than 'running' raises
\* ClusterError and does not run pg_ctl reload; one that observes 'running'
\* runs pg_ctl reload exactly once, raises ClusterError when it exits non-zero
\* and returns when it exits zero.
C13_Reload ==
    (last.op = "reload" /\ last.seen # << >>) =>
        IF last.seen[1] # "running"
        THEN /\ last.exc = "ClusterError"
             /\ CountOf(last.calls, "pg_ctl reload") = 0
        ELSE /\ CountOf(last.calls, "pg_ctl reload") = 1
             /\ Len(last.rcs) = 1
             /\ last.rcs[1] # 0 => last.exc = "ClusterError"
             /\ last.rcs[1] = 0 => (last.exc = NoExc /\ last.ret = None)

\* reload has just been refused on an initialized cluster that is stopped.
C13_Witness ==
    /\ last.op = "reload"
    /\ last.faithful
    /\ last.seen = <<"stopped">>
    /\ last.exc = "ClusterError"
    /\ last.calls = <<"pg_ctl status">>
    /\ Initialized(fs)

\* The calls that observe the status or change the cluster's state.
StatusAndLifecycle == {"get_status", "init", "start", "stop", "reload", "destroy"}

\* C14, as stated: a status or lifecycle call on a handle whose paths are not
\* resolved resolves them before it runs anything else; one on a handle whose
\* paths are resolved does not resolve them again; no call runs the control
\* tool with an unresolved path.
C14_ResolvedOnFirstCall ==
    [][last'.op \in StatusAndLifecycle =>
          /\ cluster.pg_ctl = None =>
                 /\ last'.calls # << >>
                 /\ last'.calls[1] = "pg_config"
                 /\ cluster'.pg_ctl # None
          /\ cluster.pg_ctl # None =>
                 /\ "pg_config" \notin Range(last'.calls)
                 /\ cluster'.pg_ctl = cluster.pg_ctl
          /\ "None stop" \notin Range(last'.calls)
      ]_vars

---------------------------------------------------------------------------
(* Properties of the replica (specification SpecStandby) *)

\* C20: a replica's init that observes a status other than 'not-initialized'
\* raises ClusterError, runs no pg_basebackup and writes nothing; one that
\* observes 'not-initialized' runs pg_basebackup once; when that exits
\* non-zero it raises ClusterError and recovery.conf is not written; when it
\* exits zero recovery.conf is written after it, naming the primary's host and
\* port and the replication user.
C20_ReplicaInit ==
    [][(cluster.variant = "HotStandbyCluster" /\ last'.op = "init"
           /\ last'.seen # << >>) =>
          IF last'.seen[1] # "not-initialized"
          THEN /\ last'.exc = "ClusterError"
               /\ Range(last'.calls) \cap {"pg_basebackup", "write recovery.conf"} = {}
               /\ fs' = fs
          ELSE /\ CountOf(last'.calls, "pg_basebackup") = 1
               /\ Len(last'.rcs) = 1
               /\ last'.rcs[1] # 0 =>
                      /\ last'.exc = "ClusterError"
                      /\ "write recovery.conf" \notin Range(last'.calls)
                      /\ fs'.recovery = fs.recovery
                      /\ "recovery.conf" \in fs'.files <=> "recovery.conf" \in fs.files
               /\ last'.rcs[1] = 0 =>
                      /\ last'.exc = NoExc
                      /\ SubSeq(last'.calls, Len(last'.calls) - 1, Len(last'.calls))
                             = <<"pg_basebackup", "write recovery.conf">>
                      /\ "recovery.conf" \in fs'.files
                      /\ fs'.recovery[2] = <<"primary_conninfo", MasterSpec.host,
                                              MasterSpec.port, ReplUser>>
      ]_vars

\* The replica's init has just failed in pg_basebackup; there is no
\* recovery.conf.
C20_Witness ==
    /\ cluster.variant = "HotStandbyCluster"
    /\ last.op = "init"
    /\ last.seen = <<"not-initialized">>
    /\ last.rcs = <<1>>
    /\ last.exc = "ClusterError"
    /\ "recovery.conf" \notin fs.files

---------------------------------------------------------------------------
(* Properties of environment resolution (specification SpecEnv) *)

\* C21, as stated: whenever the handle holds a pg_ctl path it holds a postgres
\* path too, and a HotStandbyCluster a pg_basebackup path, also after an
\* _init_env that raised; no start or init fails for want of a path.
C21_ResolutionAtomic ==
    /\ cluster.pg_ctl # None =>
           /\ cluster.postgres # Unset
           /\ cluster.variant = "HotStandbyCluster" => cluster.pg_basebackup # Unset
    /\ last.op \in {"start", "init"} => last.exc # "AttributeError"

---------------------------------------------------------------------------
(* Properties of the cached address (specification SpecCache) *)

\* C22, as stated: a get_status whose pg_ctl status exits with 0 leaves no
\* address cached on the handle.
C22_EveryExitZeroClears ==
    [][(last'.op = "get_status" /\ Len(last'.outs) = 1 /\ last'.outs[1].rc = 0) =>
          cluster'.connection_addr = NoAddr
      ]_vars

\* C22: a get_status that returns 'running' leaves no address cached on the
\* handle; and what a get_connection_spec returns is what the status file
\* holds when it is called (None when the file yields no address), whatever
\* address was cached before.
C22_ReadAtCall ==
    [][/\ (last'.op = "get_status" /\ last'.exc = NoExc /\ last'.ret = "running") =>
              cluster'.connection_addr = NoAddr
       /\ (last'.op = "get_connection_spec" /\ last'.exc = NoExc) =>
              /\ fs' = fs
              /\ last'.ret = connection_addr_from_pidfile(cluster', fs).addr
              /\ last'.ret # NoAddr => last'.ret.port = fs.pidfile[4]
      ]_vars

\* get_connection_spec has just returned the port of the rewritten status
\* file, not the port the handle had cached from the file before.
C22_Witness ==
    /\ last.op = "get_connection_spec"
    /\ last.exc = NoExc
    /\ last.faithful
    /\ last.args.cached # NoAddr
    /\ last.args.cached.port = <<"5432">>
    /\ Len(fs.pidfile) >= 6
    /\ fs.pidfile[4] = <<"5433">>
    /\ last.ret = [host |-> <<Slash, "tmp">>, port |-> <<"5433">>]

---------------------------------------------------------------------------
(* Properties of the port search (specification SpecPort) *)

\* Every port drawn during the call was in use.
AllInUse == \A i \in 1..last.args.max_tries : last.args.draws[i] \in net.in_use

\* C6: find_available_port makes at most max_tries bind attempts, closes every
\* socket it opened and raises nothing; when every bind fails with EADDRINUSE
\* it returns None after exactly max_tries attempts.
C6_PortSearch ==
    last.op = "find_available_port" =>
        /\ last.exc = NoExc
        /\ last.ret.tries <= last.args.max_tries
        /\ last.ret.opened = last.ret.tries
        /\ last.ret.closed = last.ret.opened
        /\ AllInUse => (last.ret.port = NoPid /\ last.ret.tries = last.args.max_tries)

\* The search has just given up on a range of one port that is in use, after
\* more than one attempt.
C6_Witness ==
    /\ last.op = "find_available_port"
    /\ last.args.low = last.args.high
    /\ last.args.low \in net.in_use
    /\ last.args.max_tries > 1
    /\ last.ret.port = NoPid
    /\ last.ret.tries = last.args.max_tries

\* C18, as stated: a port returned by find_available_port lies in the range
\* asked for and is one the bind of the last iteration succeeded on, whatever
\* the binds raised; every socket opened is closed when the function returns.
C18_ReturnedPortBound ==
    last.op = "find_available_port" =>
        /\ last.ret.closed = last.ret.opened
        /\ last.ret.port # NoPid =>
               /\ last.ret.port \in last.args.low..last.args.high
               /\ last.ret.port = last.args.draws[last.ret.tries]
               /\ last.ret.bound
               /\ Bind(last.ret.port) = "ok"

---------------------------------------------------------------------------
(* Properties of connection discovery (specification SpecAddr) *)

\* The status file is complete and its process id is not taken for a stale one.
Accepted ==
    /\ Len(fs.pidfile) >= 6
    /\ ~(Truthy(cluster.daemon_pid) /\ IntOf(fs.pidfile[1]) # cluster.daemon_pid)

\* The listen address of the status file, wildcards replaced.
ListenHost ==
    IF fs.pidfile[6] = <<"*">> THEN <<"localhost">>
    ELSE IF fs.pidfile[6] = <<"0.0.0.0">> THEN <<"127.0.0.1">>
    ELSE IF fs.pidfile[6] = <<"::">> THEN <<"::1">>
    ELSE fs.pidfile[6]

\* What _get_connection_spec has returned is this host and the port of line 4,
\* every key of the override replacing or joining them.
Resolved(host) ==
    /\ last.exc = NoExc
    /\ last.ret = IF cluster.connection_spec_override = NoAddr
                  THEN [host |-> host, port |-> fs.pidfile[4]]
                  ELSE DictUpdate([host |-> host, port |-> fs.pidfile[4]],
                                  cluster.connection_spec_override)

\* C10, as stated: for a complete, accepted status file the host is the socket
\* directory when non-empty, joined with the data directory when relative, else
\* the listen address with the wildcards replaced; the port is line 4; the
\* override's keys replace the discovered values.
C10_Joined ==
    (last.op = "_get_connection_spec" /\ Accepted) =>
        Resolved(IF fs.pidfile[5] # << >>
                 THEN IF Head(fs.pidfile[5]) = Slash THEN fs.pidfile[5]
                      ELSE cluster.data_dir \o fs.pidfile[5]
                 ELSE ListenHost)

\* C10: for a complete, accepted status file the host is the socket directory
\* when non-empty, a relative one joined with the data directory and the result
\* normalized ("." dropped, ".." resolved), else the listen address with the
\* wildcards replaced; the port is line 4; the override's keys replace the
\* discovered values.
C10_JoinedNormalized ==
    (last.op = "_get_connection_spec" /\ Accepted) =>
        Resolved(IF fs.pidfile[5] # << >>
                 THEN IF Head(fs.pidfile[5]) = Slash THEN fs.pidfile[5]
                      ELSE NormPath(cluster.data_dir \o fs.pidfile[5])
                 ELSE ListenHost)

\* The spec has just been resolved from a relative socket directory with a
\* ".." component, under an override of the port.
C10_Witness ==
    /\ last.op = "_get_connection_spec"
    /\ Accepted
    /\ fs.pidfile[5] = <<DotDot, "run">>
    /\ cluster.connection_spec_override = [port |-> <<"6543">>]
    /\ last.ret = [host |-> <<Slash, "run">>, port |-> <<"6543">>]

---------------------------------------------------------------------------
(* Properties of the readiness wait (specification SpecWait) *)

\* The status file is absent, incomplete, or written by a process other than
\* the one recorded on the handle.
NoAddressKnown ==
    \/ PidFileName \notin fs.files
    \/ Len(fs.pidfile) < 6
    \/ (cluster.daemon_pid # NoPid /\ IntOf(fs.pidfile[1]) # cluster.daemon_pid)

\* C11: when the status file is absent, has fewer than 6 lines or names a
\* process id other than the one recorded on the handle, discovery (with no
\* address cached) yields None and caches nothing, and a readiness wait during
\* which the file stays so makes no connection attempt.
C11_NoAddress ==
    [][NoAddressKnown =>
          /\ (last'.op = "_get_connection_spec" /\ cluster.connection_addr = NoAddr) =>
                 /\ last'.exc = NoExc
                 /\ last'.ret = NoAddr
                 /\ cluster'.connection_addr = NoAddr
          /\ (last'.op = "_test_connection" /\ fs' = fs) =>
                 /\ "connect" \notin Range(last'.calls)
                 /\ cluster'.connection_addr = NoAddr
      ]_vars

\* A wait of more than one iteration has just ended without a connection
\* attempt, the complete status file being another process's.
C11_Witness ==
    /\ last.op = "_test_connection"
    /\ last.args.timeout > 1
    /\ Len(fs.pidfile) >= 6
    /\ cluster.daemon_pid # NoPid
    /\ IntOf(fs.pidfile[1]) # cluster.daemon_pid
    /\ last.calls = <<"sleep", "sleep">>

\* The iterations a wait made, from what it ran: each ends in a sleep, but the
\* one left by break.
Iterations(calls) ==
    CountOf(calls, "sleep")
        + (IF calls # << >> /\ calls[Len(calls)] # "sleep" THEN 1 ELSE 0)

\* C12: _test_connection(n) makes at most n iterations, each a failed
\* discovery or one connection attempt, raises nothing and returns 'running',
\* also when every iteration failed (then it made exactly n) and when n is 0
\* (then it ran nothing).
C12_Wait ==
    last.op = "_test_connection" =>
        /\ last.exc = NoExc
        /\ last.ret = "running"
        /\ Iterations(last.calls) <= last.args.timeout
        /\ CountOf(last.calls, "connect") <= Iterations(last.calls)
        /\ (last.calls = << >> \/ last.calls[Len(last.calls)] = "sleep") =>
               Iterations(last.calls) = last.args.timeout
        /\ last.args.timeout = 0 => last.calls = << >>

\* A wait of MaxTimeout iterations has just reported 'running' after a failed
\* connection attempt in each of them.
C12_Witness ==
    /\ last.op = "_test_connection"
    /\ last.args.timeout = MaxTimeout
    /\ CountOf(last.calls, "connect") = MaxTimeout
    /\ last.calls[Len(last.calls)] = "sleep"
    /\ last.ret = "running"

\* The iteration in which the j-th thing the wait ran was run.
IterationOf(j) == CountOf(SubSeq(last.calls, 1, j - 1), "sleep") + 1

\* C17: within one wait, a connection attempt is made only with an address
\* discovered; an attempt that fails as not yet reachable is followed by a
\* sleep and, if the budget is not used up, by the attempt of the next
\* iteration; an attempt that fails with another database error ends the wait
\* at once, and so does one that connects, after the connection is closed.
C17_Attempts ==
    last.op = "_test_connection" =>
        /\ "connect" \in Range(last.calls) => cluster.connection_addr # NoAddr
        /\ \A j \in 1..Len(last.calls) :
               last.calls[j] = "connect" =>
                   /\ IterationOf(j) <= last.args.timeout
                   /\ last.args.conn[IterationOf(j)] = "unreachable" =>
                          /\ j < Len(last.calls)
                          /\ last.calls[j + 1] = "sleep"
                          /\ IF IterationOf(j) < last.args.timeout
                             THEN /\ j + 2 <= Len(last.calls)
                                  /\ last.calls[j + 2] = "connect"
                             ELSE Len(last.calls) = j + 1
                   /\ last.args.conn[IterationOf(j)] = "pgerror" =>
                          Len(last.calls) = j
                   /\ last.args.conn[IterationOf(j)] = "connected" =>
                          (Len(last.calls) = j + 1 /\ last.calls[j + 1] = "close")
        /\ \A j \in 1..Len(last.calls) :
               last.calls[j] = "close" => (j > 1 /\ last.calls[j - 1] = "connect")

\* A wait has just ended on a database error other than not-ready, met in its
\* second attempt, with budget left.
C17_Witness ==
    /\ last.op = "_test_connection"
    /\ last.args.timeout > 2
    /\ last.args.conn[1] = "unreachable"
    /\ last.args.conn[2] = "pgerror"
    /\ last.calls = <<"connect", "sleep", "connect">>

\* C19, as stated: a get_connection_spec that observes a status other than
\* 'running' raises ClusterError, and one that returns returns a mapping with a
\* host and a port, never None, whatever the status file holds (pg_ctl
\* status reporting what the directory and the server are).
C19_ConnectionSpec ==
    (last.op = "get_connection_spec" /\ last.faithful) =>
        /\ (last.seen # << >> /\ last.seen[1] # "running") =>
               last.exc = "ClusterError"
        /\ last.exc = NoExc =>
               /\ last.ret # NoAddr
               /\ {"host", "port"} \subseteq DOMAIN last.ret

---------------------------------------------------------------------------
(* Properties of access control (specification SpecHba) *)

\* The call of add_hba_entry in last' is one of the rejected cases.
Rejected ==
    \/ last'.args.type \notin HbaTypes
    \/ (last'.args.type # "local" /\ last'.args.address = None)
    \/ (last'.seen # << >> /\ last'.seen[1] = "not-initialized")

\* C8: add_hba_entry raises and leaves pg_hba.conf as it was when the type is
\* not local, host, hostssl or hostnossl, when the type is not local and the
\* address is None, and when the status is 'not-initialized'; the file changes
\* only in none of these cases, and then by one line appended.
C8_AddHbaEntry ==
    [][last'.op = "add_hba_entry" =>
          /\ Rejected => (last'.exc # NoExc /\ fs' = fs)
          /\ fs' # fs => (~Rejected
                             /\ fs'.pg_hba = Append(fs.pg_hba, HbaRecord(last'.args)))
          /\ (~Rejected /\ last'.exc = NoExc) => Len(fs'.pg_hba) = Len(fs.pg_hba) + 1
      ]_vars

\* An entry of type host without an address has just been rejected on an
\* initialized cluster whose file is not empty.
C8_Witness ==
    /\ last.op = "add_hba_entry"
    /\ last.args.type = "host"
    /\ last.args.address = None
    /\ last.seen = <<"stopped">>
    /\ last.exc = "ValueError"
    /\ fs.pg_hba # << >>

\* C15, as stated: a managed-cluster operation that fails raises ClusterError,
\* whatever the failure: an add_hba_entry with an invalid type or without an
\* address, an illegal lifecycle transition, a non-zero exit of a tool.
C15_SingleErrorKind ==
    last.exc \in {NoExc, "ClusterError"}

\* The records trust_local_connections leaves in pg_hba.conf on a platform.
TrustRecords(system) ==
    (IF system # "Windows" THEN <<<<"local", "all", "all", "trust">>>> ELSE << >>)
        \o <<<<"host", "all", "all", "127.0.0.1/32", "trust">>,
             <<"host", "all", "all", "::1/128", "trust">>>>

\* The place, among the statuses a trust_local_connections observes, of the one
\* it decides the reload on: after reset_hba's and each add_hba_entry's.
OwnStatus == Len(TrustRecords(env.system)) + 2

\* C9: once trust_local_connections has written its entries on an initialized
\* cluster, pg_hba.conf holds exactly the trust records of the platform, in
\* order, whatever it held before; and pg_ctl reload is run if and only if the
\* status then observed is 'running'.
C9_TrustLocalConnections ==
    (last.op = "trust_local_connections" /\ Len(last.seen) >= OwnStatus) =>
        /\ fs.pg_hba = TrustRecords(env.system)
        /\ "pg_ctl reload" \in Range(last.calls) <=> last.seen[OwnStatus] = "running"
        /\ last.seen[OwnStatus] # "running" => last.exc = NoExc

\* trust_local_connections has just returned on a running cluster, the file
\* rewritten and the server told to reload.
C9_Witness ==
    /\ last.op = "trust_local_connections"
    /\ last.exc = NoExc
    /\ last.faithful
    /\ ServerUp(fs, env)
    /\ "pg_ctl reload" \in Range(last.calls)
    /\ fs.pg_hba = TrustRecords(env.system)

\* The records trust_local_replication_by(user) adds on a platform.
ReplicationRecords(system, user) ==
    (IF system # "Windows" THEN <<<<"local", "replication", user, "trust">>>>
     ELSE << >>)
        \o <<<<"host", "replication", user, "127.0.0.1/32", "trust">>,
             <<"host", "replication", user, "::1/128", "trust">>>>

\* The place, among the statuses a trust_local_replication_by observes, of the
\* one it decides the reload on: after each add_hba_entry's.
ReplOwnStatus == Len(ReplicationRecords(env.system, ReplUser)) + 1

\* C16, as stated: once trust_local_replication_by has written its entries,
\* pg_hba.conf holds exactly the replication trust records of the platform and
\* no record it held before the call.
C16_ResetThenAdd ==
    (last.op = "trust_local_replication_by" /\ Len(last.seen) >= ReplOwnStatus) =>
        fs.pg_hba = ReplicationRecords(env.system, ReplUser)

\* C16: once trust_local_replication_by has written its entries, pg_hba.conf
\* holds every record it held before the call, in order, followed by the
\* replication trust records of the platform; and pg_ctl reload is run if and
\* only if the status then observed is 'running'.
C16_AddOnly ==
    [][(last'.op = "trust_local_replication_by"
           /\ Len(last'.seen) >= ReplOwnStatus) =>
          /\ fs'.pg_hba = fs.pg_hba \o ReplicationRecords(env.system, ReplUser)
          /\ "pg_ctl reload" \in Range(last'.calls)
                 <=> last'.seen[ReplOwnStatus] = "running"
      ]_vars

\* trust_local_replication_by has just returned on a running cluster whose
\* file held the default record, which is still its first.
C16_Witness ==
    /\ last.op = "trust_local_replication_by"
    /\ last.exc = NoExc
    /\ last.faithful
    /\ ServerUp(fs, env)
    /\ "pg_ctl reload" \in Range(last.calls)
    /\ fs.pg_hba = DefaultHba \o ReplicationRecords(env.system, ReplUser)

---------------------------------------------------------------------------
(* Properties of the unmanaged variant (specification SpecUnmanaged) *)

\* C7: on a RunningCluster, after any sequence of calls, get_status returns
\* 'running'; init, start, stop and destroy raise nothing, run nothing and
\* leave the data directory and the server process as they were;
\* get_connection_spec returns the mapping the handle was constructed with;
\* reset_hba, add_hba_entry and trust_local_connections raise ClusterError and
\* leave the file as it was.
C7_Unmanaged ==
    [][/\ last'.op = "get_status" => (last'.exc = NoExc /\ last'.ret = "running")
       /\ last'.op \in {"init", "start", "stop", "destroy"} =>
              /\ last'.exc = NoExc
              /\ last'.calls = << >>
              /\ fs' = fs
              /\ env' = env
       /\ last'.op = "get_connection_spec" =>
              (last'.exc = NoExc /\ last'.ret = cluster.conn_spec)
       /\ last'.op \in {"reset_hba", "add_hba_entry", "trust_local_connections"} =>
              (last'.exc = "ClusterError" /\ fs' = fs)
       /\ cluster'.conn_spec = cluster.conn_spec
      ]_vars

\* stop has just returned on a RunningCluster whose server is up.
C7_Witness ==
    /\ cluster.variant = "RunningCluster"
    /\ last.op = "stop"
    /\ last.exc = NoExc
    /\ ServerUp(fs, env)
    /\ last.after = "-"

=============================================================================
